---- MODULE Spec2Model ----
(***************************************************************************)
(* The DNA sonification engine of the DNASynthesizer component            *)
(* (src/unnamed/part_008) with HarmonyExplorer.getKeyMultiplier            *)
(* (src/unnamed/part_004) and the file upload of AdaptiveCompositionMode   *)
(* (src/src/components/DNAVisualizer.tsx).                                 *)
(*                                                                         *)
(* React state is rendered after every handler, so a handler reads the     *)
(* state of the render it was created in.  A closure that outlives its     *)
(* render (a setTimeout callback, the continuation of an async function,   *)
(* a Tone.Sequence callback, a FileReader.onload handler) keeps the values *)
(* of that render: such closures are stored as records of the captured     *)
(* values.                                                                 *)
(*                                                                         *)
(* Numbers are scaled integers: base frequencies in 1/10 Hz, key           *)
(* multipliers in 1/1000, triggered frequencies in 1/10000 Hz, detune in   *)
(* Hz, tempo variation, speed, harmonic blend and biofeedback level in     *)
(* 1/10, velocity in 1/100, volume in 1/10 dB, durations in 1/100 of a     *)
(* quarter note.                                                           *)
(***************************************************************************)
EXTENDS Integers, Sequences, FiniteSets, TLC

VARIABLES
  sequence,               \* useState sequence (characters)
  isPlaying,              \* useState isPlaying
  currentIndex,           \* useState currentIndex: the published position
  currentKey,             \* useState currentKey
  playbackSpeed,          \* useState playbackSpeed, 1/10
  currentMutation,        \* useState currentMutation
  biofeedbackModulation,  \* useState biofeedbackModulation, 1/10
  loops,                  \* every Tone.Sequence built so far, with its closure
  sequenceRef,            \* sequenceRef.current: 0 is null, else an index of loops
  transport,              \* Tone.Transport.state
  synthVolume,            \* synthRef.current.volume.value, 1/10 dB
  drawEvents,             \* Tone.Draw: callbacks scheduled and not yet run
  timers,                 \* setTimeout(() => playSequence(), 100) not yet fired
  pendingPlays,           \* playSequence calls suspended at await Tone.start()
  upload,                 \* FileReader reading a file: the handler it will call
  toast,                  \* the last notification
  last,                   \* the last step taken and what it did
  afterStop,              \* stopSequence has run and no tick has run since
  inputs,                 \* number of input events so far
  call,                   \* a call of a pure function: its inputs and result
  biofeedback,            \* BiofeedbackInput: the switch, the microphone, the sampling loop
  adaptive,               \* AdaptiveCompositionMode: its settings
  renderer,               \* the canvas renderers: surface and animation state
  mounted                 \* DNASynthesizer is mounted: the cleanup of its effect has not run

vars == <<sequence, isPlaying, currentIndex, currentKey, playbackSpeed,
          currentMutation, biofeedbackModulation, loops, sequenceRef, transport,
          synthVolume, drawEvents, timers, pendingPlays, upload, toast, last,
          afterStop, inputs, call, biofeedback, adaptive, renderer, mounted>>

params == <<sequence, currentKey, playbackSpeed, currentMutation,
            biofeedbackModulation>>

engine == <<loops, sequenceRef, transport, synthVolume>>

others == <<biofeedback, adaptive, renderer, mounted>>

------------------------------------------------------------------------------
(* Bounds of the model *)

MaxInputs == 2     \* input events (parameter, sequence, biofeedback, upload)
MaxLoops == 2      \* trigger loops built, restart timers and suspended plays
MaxDraw == 2       \* Tone.Draw callbacks pending
MaxSymbols == 3    \* characters of an input string given to the symbol filter
MaxFrames == 3     \* animation frames of the renderers
MaxToggles == 3    \* uses of the biofeedback switch

------------------------------------------------------------------------------
(* Tables and pure functions *)

Bases == {"A", "T", "C", "G"}

BASE_DNA_FREQUENCIES ==
  [b \in Bases |-> CASE b = "A" -> 3700
                     [] b = "T" -> 4662
                     [] b = "C" -> 5544
                     [] b = "G" -> 6223]

KEYS == << [value |-> "f-sharp", multiplier |-> 1000],
           [value |-> "a",       multiplier |-> 1122],
           [value |-> "c",       multiplier |-> 944] >>

KeyValues == { KEYS[i].value : i \in 1..Len(KEYS) }

\* getKeyMultiplier without the || 1.0 of an unknown key
getKeyMultiplierNoFallback(key) ==
  LET found == { i \in 1..Len(KEYS) : KEYS[i].value = key }
  IN IF found = {} THEN 0
     ELSE KEYS[CHOOSE i \in found : \A j \in found : i <= j].multiplier

\* KEYS.find(k => k.value === key)?.multiplier || 1.0
getKeyMultiplier(key) ==
  LET found == { i \in 1..Len(KEYS) : KEYS[i].value = key }
      m == IF found = {} THEN 0
           ELSE KEYS[CHOOSE i \in found : \A j \in found : i <= j].multiplier
  IN IF m = 0 THEN 1000 ELSE m

\* useMemo: the table of the render, BASE_DNA_FREQUENCIES * keyMultiplier
DNA_FREQUENCIES(key) ==
  [b \in Bases |-> BASE_DNA_FREQUENCIES[b] * getKeyMultiplier(key)]

DetuneScale == 1        \* 0.1, in 1/10
BlendThreshold == 3     \* 0.3, in 1/10

\* freq = DNA_FREQUENCIES[base]; freq += currentMutation.frequencyDetune * 0.1
TickFrequency(freqs, base, mutation) ==
  freqs[base] + mutation.frequencyDetune * DetuneScale * 1000

\* TickChord with >= for > in the harmonic blending branch
TickChordAtThreshold(freq, mutation) ==
  IF mutation.harmonicBlend >= BlendThreshold THEN <<freq, freq * 2>> ELSE <<freq>>

\* the frequencies handed to triggerAttackRelease
TickChord(freq, mutation) ==
  IF mutation.harmonicBlend > BlendThreshold THEN <<freq, freq * 2>> ELSE <<freq>>

\* the velocity handed to triggerAttackRelease; 0 stands for "not given"
TickVelocity(mutation) ==
  IF mutation.harmonicBlend > BlendThreshold
  THEN 50 + mutation.harmonicBlend * 3
  ELSE 0

\* volume = -10 + biofeedbackModulation * 10
TickVolume(bio) == -100 + bio * 10

\* 4 / (currentMutation.tempoVariation * playbackSpeed), as a fraction num/den
Subdivision(mutation, speed) ==
  [num |-> 4 * 100, den |-> mutation.tempoVariation * speed]

\* Tone's notation `${N}n`: the N-th part of a whole note of four quarters
NotationDuration(n) == (4 * 100 * n.den) \div n.num

Upper(c) ==
  CASE c = "a" -> "A" [] c = "t" -> "T" [] c = "c" -> "C" [] c = "g" -> "G"
    [] c = "x" -> "X" [] OTHER -> c

toUpperCase(s) == [i \in 1..Len(s) |-> Upper(s[i])]

IsBase(c) == c \in Bases

\* value.toUpperCase().replace(/[^ATCG]/g, "")
Filtered(s) == SelectSeq(toUpperCase(s), IsBase)

MaxLength == 32

\* s.slice(0, n)
slice(s, n) == SubSeq(s, 1, IF Len(s) < n THEN Len(s) ELSE n)

\* validBases without toUpperCase()
validBasesCaseSensitive(s) == SelectSeq(s, IsBase)

\* sequence.toUpperCase().split("").filter(base => ["A","T","C","G"].includes(base))
validBases(s) == SelectSeq(toUpperCase(s), IsBase)

------------------------------------------------------------------------------
(* Inputs *)

DefaultSequence == <<"A", "C", "G", "T", "A", "C", "G", "T">>

\* values of the seq parameter of the URL the page is opened with
UrlParams == { <<"a", "c">>, <<"g", "X", "t">> }

\* what the user types into the sequence input
TypedValues == { <<>>, <<"g", "X", "t">> }

\* contents of an uploaded file
FileContents == { <<"t">>, <<"X">> }

Speeds == {5, 20}

DefaultMutation == [frequencyDetune |-> 0, tempoVariation |-> 10, harmonicBlend |-> 0]

Mutations ==
  { [frequencyDetune |-> 5,  tempoVariation |-> 20, harmonicBlend |-> 5],
    [frequencyDetune |-> -3, tempoVariation |-> 10, harmonicBlend |-> 3] }

Levels == {0, 10}

------------------------------------------------------------------------------
(* State *)

\* op: the step; loop, at, k: the loop, the index of the symbol and the number
\* (modulo the length) of the tick the step ran or whose callback it ran;
\* stop: the step called stopSequence; notified: the step emitted a toast
NoEvent == [op |-> "init", loop |-> 0, at |-> -1, k |-> -1, base |-> "",
            chord |-> <<>>, velocity |-> 0, stop |-> FALSE, notified |-> FALSE]

Event(op) == [NoEvent EXCEPT !.op = op]

NoCall == [done |-> FALSE, base |-> "", key |-> "", mutation |-> DefaultMutation,
           result |-> 0]

NoUpload == [busy |-> FALSE, isPlaying |-> FALSE]

\* BiofeedbackInput before the switch is used: enabled is the parent's
\* biofeedbackEnabled; requests counts the getUserMedia calls not yet settled;
\* stream and analyser say that streamRef.current and analyserRef.current are
\* set; frames counts the analyze callbacks waiting for an animation frame;
\* named says that the callback animationRef.current names is one of them;
\* toggles counts the uses of the switch
NoBiofeedback == [enabled |-> FALSE, requests |-> 0, stream |-> FALSE,
                  analyser |-> FALSE, frames |-> 0, named |-> FALSE,
                  toggles |-> 0]

\* AdaptiveCompositionMode after construction
NoAdaptive == [enabled |-> FALSE, mode |-> "random", sequenceLength |-> 16,
               autoEvolve |-> FALSE, generatedSequence |-> <<>>]

\* the renderers before their first frame: width and height are what
\* resizeCanvas read, particles the ages in frames of the particles of
\* DNAVisualizer, phase the steps of phaseRef of QuantumOverlay, time and
\* rotation the steps of timeRef and of the mesh of CymaticGeometry, frames
\* the frames run, frame the renderer of the last frame, active and spawned
\* what that frame of DNAVisualizer marked and pushed, drew whether it drew,
\* pending whether it requested a next frame, mesh whether meshRef.current
\* is set (the Canvas mounts its scene once the surface has a size), tab the
\* renderer that is mounted (the content of the selected tab, "none" before
\* the first effect has run), requests the requestAnimationFrame callbacks of
\* the canvas renderers that are outstanding, named whether animationRef.current
\* names one of them
NoRenderer == [width |-> 0, height |-> 0, particles |-> <<>>, phase |-> 0,
               time |-> 0, rotation |-> 0, frames |-> 0, frame |-> "none",
               active |-> {}, spawned |-> 0, drew |-> FALSE, pending |-> FALSE,
               mesh |-> FALSE, tab |-> "none", requests |-> 0, named |-> FALSE]

\* useMemo initialSequence
initialSequence(seqParam) ==
  IF Len(seqParam) > 0 /\ Len(Filtered(seqParam)) > 0
  THEN Filtered(seqParam)
  ELSE DefaultSequence

Init ==
  /\ sequence \in { initialSequence(u) : u \in UrlParams }
  /\ isPlaying = FALSE
  /\ currentIndex = -1
  /\ currentKey = "f-sharp"
  /\ playbackSpeed = 10
  /\ currentMutation = DefaultMutation
  /\ biofeedbackModulation = 0
  /\ loops = <<>>
  /\ sequenceRef = 0
  /\ transport = "stopped"
  /\ synthVolume = -60
  /\ drawEvents = <<>>
  /\ timers = <<>>
  /\ pendingPlays = <<>>
  /\ upload = NoUpload
  /\ toast = "none"
  /\ last = NoEvent
  /\ afterStop = FALSE
  /\ inputs = 0
  /\ call = NoCall
  /\ biofeedback = NoBiofeedback
  /\ adaptive = NoAdaptive
  /\ renderer = NoRenderer
  /\ mounted = TRUE

\* the playSequence of the current render: useCallback over sequence,
\* currentMutation, biofeedbackModulation, playbackSpeed and DNA_FREQUENCIES
playSequence ==
  [sequence |-> sequence, key |-> currentKey, mutation |-> currentMutation,
   bio |-> biofeedbackModulation, speed |-> playbackSpeed]

\* a call of a playSequence closure: runs to await Tone.start() (synthRef.current
\* is set from the mount on)
CallPlay(closure, origin, want) ==
  pendingPlays' = Append(pendingPlays,
                         [closure |-> closure, origin |-> origin, want |-> want])

Wanted(key, mutation, speed) == [key |-> key, mutation |-> mutation, speed |-> speed]

\* setTimeout(() => playSequence(), 100) inside a handler of the current render
ScheduleRestart(want) ==
  timers' = Append(timers, [closure |-> playSequence, want |-> want])

\* stopSequence without setIsPlaying(false)
stopSequenceKeepsFlag ==
  /\ transport' = "stopped"
  /\ loops' = IF sequenceRef # 0 /\ loops[sequenceRef].state = "started"
              THEN [loops EXCEPT ![sequenceRef].state = "stopped"]
              ELSE loops
  /\ currentIndex' = -1
  /\ afterStop' = TRUE
  /\ UNCHANGED <<isPlaying, sequenceRef, synthVolume>>

\* stopSequence without sequenceRef.current?.stop()
stopSequenceLeavesLoop ==
  /\ transport' = "stopped"
  /\ isPlaying' = FALSE
  /\ currentIndex' = -1
  /\ afterStop' = TRUE
  /\ UNCHANGED <<loops, sequenceRef, synthVolume>>

\* stopSequence: Tone.Transport.stop(); sequenceRef.current?.stop();
\* setIsPlaying(false); setCurrentIndex(-1)
stopSequence ==
  /\ transport' = "stopped"
  /\ loops' = IF sequenceRef # 0 /\ loops[sequenceRef].state = "started"
              THEN [loops EXCEPT ![sequenceRef].state = "stopped"]
              ELSE loops
  /\ isPlaying' = FALSE
  /\ currentIndex' = -1
  /\ afterStop' = TRUE
  /\ UNCHANGED <<sequenceRef, synthVolume>>

------------------------------------------------------------------------------
(* Playback *)

\* room for one more playSequence call within the bound on loops
Budget == Len(loops) + Len(timers) + Len(pendingPlays) < MaxLoops

\* the Play button of the desktop controls and of the bottom sheet, shown
\* while isPlaying is false: onClick = playSequence
PlayClick ==
  /\ mounted
  /\ ~isPlaying
  /\ Budget
  /\ CallPlay(playSequence, "click",
              Wanted(currentKey, currentMutation, playbackSpeed))
  /\ last' = Event("play")
  /\ UNCHANGED <<params, isPlaying, currentIndex, engine, drawEvents, timers,
                 upload, toast, afterStop, inputs, call, others>>

\* new Tone.Sequence(callback, validBases, subdivision) with the closure of
\* the playSequence that runs; start(0) on a transport that is already
\* running joins the loop at the transport's position
NewLoop(p, bases, first) ==
  [bases |-> bases, key |-> p.closure.key, mutation |-> p.closure.mutation,
   bio |-> p.closure.bio, speed |-> p.closure.speed,
   interval |-> NotationDuration(Subdivision(p.closure.mutation, p.closure.speed)),
   state |-> "started", pos |-> first, k |-> 0, index |-> 0,
   origin |-> p.origin, want |-> p.want]

\* NoValidBases without the check
NoValidBasesUnchecked(bases) == FALSE

\* if (validBases.length === 0)
NoValidBases(bases) == Len(bases) = 0

\* playSequence after await Tone.start(); a set-state call of an unmounted
\* component changes nothing
PlayResume ==
  /\ pendingPlays # <<>>
  /\ LET p == Head(pendingPlays)
         bases == validBases(p.closure.sequence)
     IN /\ pendingPlays' = Tail(pendingPlays)
        /\ IF NoValidBases(bases)
           THEN /\ toast' = "error: enter a valid DNA sequence"
                /\ last' = [Event("play-empty") EXCEPT !.notified = TRUE]
                /\ UNCHANGED <<isPlaying, engine>>
           ELSE /\ \E first \in (IF transport = "started"
                                 THEN 0..(Len(bases) - 1) ELSE {0}) :
                     loops' = Append(IF sequenceRef # 0
                                     THEN [loops EXCEPT ![sequenceRef].state = "disposed"]
                                     ELSE loops,
                                     NewLoop(p, bases, first))
                /\ sequenceRef' = Len(loops) + 1
                /\ transport' = "started"
                /\ isPlaying' = (mounted \/ isPlaying)
                /\ toast' = "success: listening"
                /\ last' = [Event("play-start") EXCEPT !.loop = Len(loops) + 1,
                                                       !.notified = TRUE]
                /\ UNCHANGED synthVolume
  /\ UNCHANGED <<params, currentIndex, drawEvents, timers, upload, afterStop, inputs, call, others>>

\* the Stop button, shown (desktop) or enabled (bottom sheet) while isPlaying
StopClick ==
  /\ mounted
  /\ isPlaying
  /\ stopSequence
  /\ last' = [Event("stop") EXCEPT !.stop = TRUE]
  /\ UNCHANGED <<params, drawEvents, timers, pendingPlays, upload, toast, inputs, call, others>>

\* Tick that reads the key and the mutation of the current render
TickReadsState ==
  /\ transport = "started"
  /\ sequenceRef # 0
  /\ loops[sequenceRef].state = "started"
  /\ Len(drawEvents) < MaxDraw
  /\ LET l == loops[sequenceRef]
         base == l.bases[l.pos + 1]
         freq == TickFrequency(DNA_FREQUENCIES(currentKey), base, currentMutation)
     IN /\ synthVolume' = TickVolume(l.bio)
        /\ last' = [Event("tick") EXCEPT !.loop = sequenceRef, !.at = l.pos,
                      !.k = l.k, !.base = base, !.chord = TickChord(freq, currentMutation),
                      !.velocity = TickVelocity(currentMutation)]
        /\ drawEvents' = Append(drawEvents,
                                [loop |-> sequenceRef, at |-> l.pos, k |-> l.k])
        /\ loops' = [loops EXCEPT ![sequenceRef].pos = (l.pos + 1) % Len(l.bases),
                                  ![sequenceRef].k = (l.k + 1) % Len(l.bases)]
  /\ afterStop' = FALSE
  /\ UNCHANGED <<params, isPlaying, currentIndex, sequenceRef, transport, timers,
                 pendingPlays, upload, toast, inputs, call, others>>

\* the callback of the Tone.Sequence, run by the transport for the next event
Tick ==
  /\ transport = "started"
  /\ sequenceRef # 0
  /\ loops[sequenceRef].state = "started"
  /\ Len(drawEvents) < MaxDraw
  /\ LET l == loops[sequenceRef]
         base == l.bases[l.pos + 1]
         freq == TickFrequency(DNA_FREQUENCIES(l.key), base, l.mutation)
     IN /\ synthVolume' = TickVolume(l.bio)
        /\ last' = [Event("tick") EXCEPT !.loop = sequenceRef, !.at = l.pos,
                      !.k = l.k, !.base = base, !.chord = TickChord(freq, l.mutation),
                      !.velocity = TickVelocity(l.mutation)]
        /\ drawEvents' = Append(drawEvents,
                                [loop |-> sequenceRef, at |-> l.pos, k |-> l.k])
        /\ loops' = [loops EXCEPT ![sequenceRef].pos = (l.pos + 1) % Len(l.bases),
                                  ![sequenceRef].k = (l.k + 1) % Len(l.bases)]
  /\ afterStop' = FALSE
  /\ UNCHANGED <<params, isPlaying, currentIndex, sequenceRef, transport, timers,
                 pendingPlays, upload, toast, inputs, call, others>>

\* Tone.Draw runs the oldest scheduled callback on an animation frame:
\* setCurrentIndex(index); index = (index + 1) % validBases.length
DrawFire ==
  /\ drawEvents # <<>>
  /\ LET e == Head(drawEvents)
         l == loops[e.loop]
     IN /\ currentIndex' = IF mounted THEN l.index ELSE currentIndex
        /\ loops' = [loops EXCEPT ![e.loop].index = (l.index + 1) % Len(l.bases)]
        /\ last' = [Event("draw") EXCEPT !.loop = e.loop, !.at = e.at, !.k = e.k]
  /\ drawEvents' = Tail(drawEvents)
  /\ UNCHANGED <<params, isPlaying, sequenceRef, transport, synthVolume, timers,
                 pendingPlays, upload, toast, afterStop, inputs, call, others>>

\* Tone.Draw drops a callback whose time is older than Draw.expiration when
\* the animation frame comes (no frames while the page is hidden)
DrawExpire ==
  /\ drawEvents # <<>>
  /\ drawEvents' = Tail(drawEvents)
  /\ last' = [Event("expire") EXCEPT !.loop = Head(drawEvents).loop]
  /\ UNCHANGED <<params, isPlaying, currentIndex, engine, timers, pendingPlays,
                 upload, toast, afterStop, inputs, call, others>>

\* the callback of setTimeout(() => playSequence(), 100): calls the
\* playSequence of the render that set the timer
TimerFire ==
  /\ timers # <<>>
  /\ CallPlay(Head(timers).closure, "restart", Head(timers).want)
  /\ timers' = Tail(timers)
  /\ last' = Event("timer")
  /\ UNCHANGED <<params, isPlaying, currentIndex, engine, drawEvents, upload,
                 toast, afterStop, inputs, call, others>>

------------------------------------------------------------------------------
(* Parameter changes *)

\* if (isPlaying) { stopSequence(); setTimeout(() => playSequence(), 100); }
RestartIfPlaying(want) ==
  IF isPlaying
  THEN /\ stopSequence
       /\ ScheduleRestart(want)
  ELSE UNCHANGED <<isPlaying, currentIndex, engine, afterStop, timers>>

\* HarmonyExplorer onKeyChange of the desktop controls
KeyChangeDesktop(key) ==
  /\ inputs < MaxInputs
  /\ isPlaying => Budget
  /\ currentKey' = key
  /\ RestartIfPlaying(Wanted(key, currentMutation, playbackSpeed))
  /\ toast' = "success: shifted key"
  /\ last' = [Event("key") EXCEPT !.stop = isPlaying, !.notified = TRUE]
  /\ inputs' = inputs + 1
  /\ UNCHANGED <<sequence, playbackSpeed, currentMutation, biofeedbackModulation,
                 drawEvents, pendingPlays, upload, call, others>>

\* HarmonyExplorer onKeyChange of the bottom sheet
KeyChangeMobile(key) ==
  /\ inputs < MaxInputs
  /\ currentKey' = key
  /\ toast' = "success: shifted key"
  /\ last' = [Event("key-mobile") EXCEPT !.notified = TRUE]
  /\ inputs' = inputs + 1
  /\ UNCHANGED <<sequence, playbackSpeed, currentMutation, biofeedbackModulation,
                 isPlaying, currentIndex, engine, drawEvents, timers, pendingPlays,
                 upload, afterStop, call, others>>

\* playback speed Slider onValueChange
SpeedChange(nextSpeed) ==
  /\ inputs < MaxInputs
  /\ isPlaying => Budget
  /\ playbackSpeed' = nextSpeed
  /\ RestartIfPlaying(Wanted(currentKey, currentMutation, nextSpeed))
  /\ last' = [Event("speed") EXCEPT !.stop = isPlaying]
  /\ inputs' = inputs + 1
  /\ UNCHANGED <<sequence, currentKey, currentMutation, biofeedbackModulation,
                 drawEvents, pendingPlays, upload, toast, call, others>>

\* handleMutation, the onMutation of EvolutionaryMode
handleMutation(mutation) ==
  /\ mounted
  /\ inputs < MaxInputs
  /\ isPlaying => Budget
  /\ currentMutation' = mutation
  /\ RestartIfPlaying(Wanted(currentKey, mutation, playbackSpeed))
  /\ last' = [Event("mutation") EXCEPT !.stop = isPlaying]
  /\ inputs' = inputs + 1
  /\ UNCHANGED <<sequence, currentKey, playbackSpeed, biofeedbackModulation,
                 drawEvents, pendingPlays, upload, toast, call, others>>

\* handleBiofeedback, the onBiofeedback of BiofeedbackInput
handleBiofeedback(modulation) ==
  /\ inputs < MaxInputs
  /\ biofeedbackModulation' = modulation
  /\ last' = Event("biofeedback")
  /\ inputs' = inputs + 1
  /\ UNCHANGED <<sequence, currentKey, playbackSpeed, currentMutation, isPlaying,
                 currentIndex, engine, drawEvents, timers, pendingPlays, upload,
                 toast, afterStop, call, others>>

\* handleSequenceChange that also rewinds the position to the first symbol
handleSequenceChangeRewinds(value) ==
  /\ inputs < MaxInputs
  /\ sequence' = Filtered(value)
  /\ currentIndex' = 0
  /\ last' = Event("sequence")
  /\ inputs' = inputs + 1
  /\ UNCHANGED <<currentKey, playbackSpeed, currentMutation, biofeedbackModulation,
                 isPlaying, engine, drawEvents, timers, pendingPlays,
                 upload, toast, afterStop, call, others>>

\* handleSequenceChange, the onChange of the sequence input
handleSequenceChange(value) ==
  /\ inputs < MaxInputs
  /\ sequence' = Filtered(value)
  /\ last' = Event("sequence")
  /\ inputs' = inputs + 1
  /\ UNCHANGED <<currentKey, playbackSpeed, currentMutation, biofeedbackModulation,
                 isPlaying, currentIndex, engine, drawEvents, timers, pendingPlays,
                 upload, toast, afterStop, call, others>>

\* handleFileUpload: reader.onload keeps the onSequenceGenerated
\* (handleOrganismSelect) of the render in which the file was chosen
FileUpload ==
  /\ inputs < MaxInputs
  /\ ~upload.busy
  /\ upload' = [busy |-> TRUE, isPlaying |-> isPlaying]
  /\ last' = Event("upload")
  /\ inputs' = inputs + 1
  /\ UNCHANGED <<params, isPlaying, currentIndex, engine, drawEvents, timers,
                 pendingPlays, toast, afterStop, call, others>>

\* reader.onload: clean the content and hand it to handleOrganismSelect:
\* setSequence(seq); if (isPlaying) stopSequence(); toast
FileLoaded(content) ==
  /\ upload.busy
  /\ upload' = NoUpload
  /\ LET cleaned == slice(Filtered(content), MaxLength)
     IN IF Len(cleaned) > 0
        THEN /\ sequence' = cleaned
             /\ IF upload.isPlaying
                THEN stopSequence
                ELSE UNCHANGED <<isPlaying, currentIndex, engine, afterStop>>
             /\ toast' = "success: loaded"
             /\ last' = [Event("loaded") EXCEPT !.stop = upload.isPlaying,
                                                   !.notified = TRUE]
        ELSE /\ toast' = "error: no valid DNA sequence in file"
             /\ last' = [Event("loaded") EXCEPT !.notified = TRUE]
             /\ UNCHANGED <<sequence, isPlaying, currentIndex, engine, afterStop>>
  /\ UNCHANGED <<currentKey, playbackSpeed, currentMutation, biofeedbackModulation,
                 drawEvents, timers, pendingPlays, inputs, call, others>>

------------------------------------------------------------------------------
(* Specification *)

Next ==
  \/ PlayClick
  \/ PlayResume
  \/ StopClick
  \/ Tick
  \/ DrawFire
  \/ DrawExpire
  \/ TimerFire
  \/ \E key \in KeyValues : KeyChangeDesktop(key)
  \/ \E key \in KeyValues : KeyChangeMobile(key)
  \/ \E nextSpeed \in Speeds : SpeedChange(nextSpeed)
  \/ \E mutation \in Mutations : handleMutation(mutation)
  \/ \E modulation \in Levels : handleBiofeedback(modulation)
  \/ \E value \in TypedValues : handleSequenceChange(value)
  \/ FileUpload
  \/ \E content \in FileContents : FileLoaded(content)

Spec == Init /\ [][Next]_vars

------------------------------------------------------------------------------
(* Biofeedback: BiofeedbackInput (src/unnamed/part_006) beside the playback *)

\* cleanup: cancelAnimationFrame(animationRef.current), stop the tracks of
\* the stream, close the audio context, analyserRef.current = null
cleanup(b) ==
  [b EXCEPT !.frames = IF b.named THEN @ - 1 ELSE @,
            !.named = FALSE,
            !.stream = FALSE,
            !.analyser = FALSE]

\* the effect of BiofeedbackInput after a render with a new value of enabled:
\* the cleanup the previous run returned (none after a run with enabled false),
\* then cleanup() when disabled, startBiofeedback() when enabled
BiofeedbackEffect(b, enabled) ==
  IF enabled = b.enabled THEN b
  ELSE IF enabled
       THEN [b EXCEPT !.enabled = TRUE, !.requests = @ + 1]
       ELSE [cleanup(cleanup(b)) EXCEPT !.enabled = FALSE]

SchedulerUnchanged ==
  UNCHANGED <<sequence, currentKey, playbackSpeed, currentMutation, isPlaying,
              currentIndex, engine, drawEvents, timers, pendingPlays, upload,
              afterStop, inputs, call, adaptive, renderer, mounted>>

\* the Switch: onToggle(!enabled) = setBiofeedbackEnabled
BiofeedbackToggle ==
  /\ biofeedback.toggles < MaxToggles
  /\ biofeedback' = [BiofeedbackEffect(biofeedback, ~biofeedback.enabled)
                       EXCEPT !.toggles = @ + 1]
  /\ last' = Event("biofeedback-toggle")
  /\ UNCHANGED <<biofeedbackModulation, toast>>
  /\ SchedulerUnchanged

\* getUserMedia resolves: the stream and the analyser are set, analyze() runs
\* once (its enabled is the true of the effect that asked), writes the level
\* and requests its next frame; toast.success
MicGranted(level) ==
  /\ biofeedback.requests > 0
  /\ biofeedback' = [biofeedback EXCEPT !.requests = @ - 1,
                                        !.stream = TRUE,
                                        !.analyser = TRUE,
                                        !.frames = @ + 1,
                                        !.named = TRUE]
  /\ biofeedbackModulation' = level
  /\ toast' = "success: biofeedback active"
  /\ last' = [Event("mic-granted") EXCEPT !.notified = TRUE]
  /\ SchedulerUnchanged

\* getUserMedia rejects: toast.error and onToggle(false)
MicDenied ==
  /\ biofeedback.requests > 0
  /\ biofeedback' = BiofeedbackEffect([biofeedback EXCEPT !.requests = @ - 1], FALSE)
  /\ toast' = "error: could not access microphone"
  /\ last' = [Event("mic-denied") EXCEPT !.notified = TRUE]
  /\ UNCHANGED biofeedbackModulation
  /\ SchedulerUnchanged

\* an analyze callback runs on an animation frame, the one animationRef names
\* or an older one: if (!analyserRef.current || !enabled) return; else
\* onBiofeedback(Math.min(rms * 3, 1)) and the next frame is requested
Analyze(level, newest) ==
  /\ biofeedback.frames > 0
  /\ newest => biofeedback.named
  /\ ~newest => biofeedback.frames > (IF biofeedback.named THEN 1 ELSE 0)
  /\ IF biofeedback.analyser
     THEN /\ biofeedbackModulation' = level
          /\ biofeedback' = [biofeedback EXCEPT !.named = TRUE]
     ELSE /\ UNCHANGED biofeedbackModulation
          /\ biofeedback' = [biofeedback EXCEPT !.frames = @ - 1,
                                                !.named = @ /\ ~newest]
  /\ last' = Event("analyze")
  /\ UNCHANGED toast
  /\ SchedulerUnchanged

NextBiofeedback ==
  \/ PlayClick
  \/ PlayResume
  \/ StopClick
  \/ Tick
  \/ DrawFire
  \/ DrawExpire
  \/ BiofeedbackToggle
  \/ \E level \in Levels : MicGranted(level)
  \/ MicDenied
  \/ \E level \in Levels, newest \in BOOLEAN : Analyze(level, newest)

SpecBiofeedback == Init /\ [][NextBiofeedback]_vars

------------------------------------------------------------------------------
(* Auto-evolve: AdaptiveCompositionMode                                     *)
(* (src/src/components/DNAVisualizer.tsx) beside the playback                *)

Modes == {"random", "evolutionary"}

\* values of the sequence length slider
EvolveLengths == {4}

\* sequences the synthesizer holds when the panel is used
AdaptiveSequences == { <<"T">>, <<"A", "C">> }

\* generatedSequence || "ATCGATCGATCGATCG"
DefaultSeed ==
  <<"A", "T", "C", "G", "A", "T", "C", "G", "A", "T", "C", "G", "A", "T", "C", "G">>

\* outcomes of Math.random() in generateRandomSequence: the base that
\* replaces the first base of the seed, "" for no replacement
Replacements == {"", "G", "T"}

\* generateRandomSequence(length) in the evolutionary mode: every base of the
\* seed may be replaced by a random base, the result is padded with random
\* bases (here "A") and cut to the length
generateRandomSequence(seed, length, replacement) ==
  LET from == IF Len(seed) > 0 THEN seed ELSE DefaultSeed
      padded == from \o [i \in 1..(IF Len(from) < length THEN length - Len(from) ELSE 0)
                          |-> "A"]
      kept == slice(padded, length)
  IN IF replacement = "" THEN kept ELSE [kept EXCEPT ![1] = replacement]

\* the condition under which the effect keeps its setInterval(…, 4000); the
\* effect runs again after every render that changes one of its dependencies
IntervalActive ==
  adaptive.enabled /\ adaptive.mode = "evolutionary" /\ adaptive.autoEvolve /\ isPlaying

InitAdaptive ==
  /\ sequence \in AdaptiveSequences
  /\ isPlaying = FALSE
  /\ currentIndex = -1
  /\ currentKey = "f-sharp"
  /\ playbackSpeed = 10
  /\ currentMutation = DefaultMutation
  /\ biofeedbackModulation = 0
  /\ loops = <<>>
  /\ sequenceRef = 0
  /\ transport = "stopped"
  /\ synthVolume = -60
  /\ drawEvents = <<>>
  /\ timers = <<>>
  /\ pendingPlays = <<>>
  /\ upload = NoUpload
  /\ toast = "none"
  /\ last = NoEvent
  /\ afterStop = FALSE
  /\ inputs = 0
  /\ call = NoCall
  /\ biofeedback = NoBiofeedback
  /\ \E enabled \in BOOLEAN, mode \in Modes, length \in EvolveLengths :
       adaptive = [NoAdaptive EXCEPT !.enabled = enabled, !.mode = mode,
                                     !.sequenceLength = length]
  /\ renderer = NoRenderer
  /\ mounted = TRUE

AdaptiveOnly ==
  UNCHANGED <<params, isPlaying, currentIndex, engine, drawEvents, timers,
              pendingPlays, upload, toast, afterStop, call, biofeedback,
              renderer, mounted>>

\* the Switch of the panel: setEnabled
AdaptiveToggle ==
  /\ inputs < MaxInputs
  /\ adaptive' = [adaptive EXCEPT !.enabled = ~@]
  /\ last' = Event("adaptive-toggle")
  /\ inputs' = inputs + 1
  /\ AdaptiveOnly

\* a mode button of the enabled panel: setMode
SetMode(mode) ==
  /\ inputs < MaxInputs
  /\ adaptive.enabled
  /\ adaptive' = [adaptive EXCEPT !.mode = mode]
  /\ last' = Event("mode")
  /\ inputs' = inputs + 1
  /\ AdaptiveOnly

\* the auto-evolve Switch, shown in the evolutionary mode: setAutoEvolve
SetAutoEvolve ==
  /\ inputs < MaxInputs
  /\ adaptive.enabled
  /\ adaptive.mode = "evolutionary"
  /\ adaptive' = [adaptive EXCEPT !.autoEvolve = ~@]
  /\ last' = Event("auto-evolve")
  /\ inputs' = inputs + 1
  /\ AdaptiveOnly

\* the callback of setInterval(…, 4000): a new sequence is generated, kept as
\* generatedSequence and handed to onSequenceGenerated, the handleOrganismSelect
\* of the render of the effect (isPlaying is true there): setSequence(seq);
\* stopSequence(); toast
AutoEvolveFire(replacement) ==
  /\ IntervalActive
  /\ LET newSequence == generateRandomSequence(adaptive.generatedSequence,
                                               adaptive.sequenceLength, replacement)
     IN /\ adaptive' = [adaptive EXCEPT !.generatedSequence = newSequence]
        /\ sequence' = newSequence
  /\ stopSequence
  /\ toast' = "success: loaded"
  /\ last' = [Event("evolve") EXCEPT !.stop = TRUE, !.notified = TRUE]
  /\ UNCHANGED <<currentKey, playbackSpeed, currentMutation, biofeedbackModulation,
                 drawEvents, timers, pendingPlays, upload, inputs, call,
                 biofeedback, renderer, mounted>>

NextAdaptive ==
  \/ PlayClick
  \/ PlayResume
  \/ StopClick
  \/ Tick
  \/ DrawFire
  \/ DrawExpire
  \/ AdaptiveToggle
  \/ \E mode \in Modes : SetMode(mode)
  \/ SetAutoEvolve
  \/ \E replacement \in Replacements : AutoEvolveFire(replacement)

SpecAdaptive == InitAdaptive /\ [][NextAdaptive]_vars

------------------------------------------------------------------------------
(* Playback on a platform whose audio engine may fail to start *)

\* playSequence when the promise of await Tone.start() is rejected: the async
\* function ends there (no try/catch in playSequence, no catch at its callers)
PlayFail ==
  /\ pendingPlays # <<>>
  /\ pendingPlays' = Tail(pendingPlays)
  /\ last' = Event("play-failed")
  /\ UNCHANGED <<params, isPlaying, currentIndex, engine, drawEvents, timers,
                 upload, toast, afterStop, inputs, call, others>>

NextAudio ==
  \/ PlayClick
  \/ PlayResume
  \/ PlayFail
  \/ StopClick
  \/ Tick
  \/ DrawFire
  \/ DrawExpire
  \/ TimerFire
  \/ \E key \in KeyValues : KeyChangeDesktop(key)

SpecAudio == Init /\ [][NextAudio]_vars

------------------------------------------------------------------------------
(* The frequency of a tick as a function of its inputs *)

\* key names handed to getKeyMultiplier, one of them not in KEYS
KeyNames == KeyValues \cup {"g"}

AllMutations == Mutations \cup {DefaultMutation}

Positions == {-1, 0, 1}

InitFrequency ==
  /\ sequence \in { initialSequence(u) : u \in UrlParams }
  /\ isPlaying = FALSE
  /\ currentIndex \in Positions
  /\ currentKey = "f-sharp"
  /\ playbackSpeed \in Speeds
  /\ currentMutation = DefaultMutation
  /\ biofeedbackModulation \in Levels
  /\ loops = <<>>
  /\ sequenceRef = 0
  /\ transport = "stopped"
  /\ synthVolume = -60
  /\ drawEvents = <<>>
  /\ timers = <<>>
  /\ pendingPlays = <<>>
  /\ upload = NoUpload
  /\ toast = "none"
  /\ last = NoEvent
  /\ afterStop = FALSE
  /\ inputs = 0
  /\ call = NoCall
  /\ biofeedback = NoBiofeedback
  /\ adaptive = NoAdaptive
  /\ renderer = NoRenderer
  /\ mounted = TRUE

\* the frequency computation of the Tone.Sequence callback for one symbol,
\* with the table of the render of the given key
FrequencyCall(base, key, mutation) ==
  /\ call' = [done |-> TRUE, base |-> base, key |-> key, mutation |-> mutation,
              result |-> TickFrequency(DNA_FREQUENCIES(key), base, mutation)]
  /\ UNCHANGED <<params, isPlaying, currentIndex, engine, drawEvents, timers,
                 pendingPlays, upload, toast, last, afterStop, inputs, others>>

NextFrequency ==
  \E base \in Bases, key \in KeyNames, mutation \in AllMutations :
    FrequencyCall(base, key, mutation)

SpecFrequency == InitFrequency /\ [][NextFrequency]_vars

------------------------------------------------------------------------------
(* The symbols handed to the ticks as a function of the input string *)

\* characters of an input string: bases in both cases and other characters
Characters == {"a", "G", "T", "x", "1"}

RECURSIVE Strings(_)
Strings(n) ==
  IF n = 0 THEN { <<>> }
  ELSE Strings(n - 1) \cup
       { Append(s, c) : s \in { t \in Strings(n - 1) : Len(t) = n - 1 },
                        c \in Characters }

\* how the string becomes the sequence: typed into the input
\* (handleSequenceChange) or handed over as it is (handleOrganismSelect)
Paths == {"typed", "selected"}

NoSymbols == [done |-> FALSE, path |-> "", input |-> <<>>, ticks |-> <<>>]

InitSymbols ==
  /\ sequence \in { initialSequence(u) : u \in UrlParams }
  /\ isPlaying = FALSE
  /\ currentIndex = -1
  /\ currentKey = "f-sharp"
  /\ playbackSpeed = 10
  /\ currentMutation = DefaultMutation
  /\ biofeedbackModulation = 0
  /\ loops = <<>>
  /\ sequenceRef = 0
  /\ transport = "stopped"
  /\ synthVolume = -60
  /\ drawEvents = <<>>
  /\ timers = <<>>
  /\ pendingPlays = <<>>
  /\ upload = NoUpload
  /\ toast = "none"
  /\ last = NoEvent
  /\ afterStop = FALSE
  /\ inputs = 0
  /\ call = NoSymbols
  /\ biofeedback = NoBiofeedback
  /\ adaptive = NoAdaptive
  /\ renderer = NoRenderer
  /\ mounted = TRUE

\* the base a Tone.Sequence over the events hands to its count first callbacks
SequenceEvents(events, count) ==
  [k \in 1..count |-> events[((k - 1) % Len(events)) + 1]]

\* the string is made the sequence, playSequence filters it into validBases
\* and the loop runs once through its events and one tick further
SymbolsCall(input, path) ==
  LET state == IF path = "typed" THEN Filtered(input) ELSE input
      events == validBases(state)
  IN /\ call' = [done |-> TRUE, path |-> path, input |-> input,
                 ticks |-> IF Len(events) = 0 THEN <<>>
                           ELSE SequenceEvents(events, Len(events) + 1)]
     /\ sequence' = state
     /\ UNCHANGED <<isPlaying, currentIndex, currentKey, playbackSpeed,
                    currentMutation, biofeedbackModulation, engine, drawEvents,
                    timers, pendingPlays, upload, toast, last, afterStop, inputs,
                    others>>

NextSymbols ==
  \E input \in Strings(MaxSymbols), path \in Paths : SymbolsCall(input, path)

SpecSymbols == InitSymbols /\ [][NextSymbols]_vars

------------------------------------------------------------------------------
(* The renderers: DNAVisualizer (src/src/components/DNAVisualizer.tsx),      *)
(* QuantumOverlay (src/unnamed/part_003), CymaticScene                       *)
(* (src/src/components/CymaticScene.tsx)                                     *)

\* the sequences handed to the renderers
RenderSequences == { <<>>, <<"T">>, <<"A", "C">>, <<"G", "T", "A">> }

\* sizes of the drawing surface, <<width, height>>
Surfaces == { <<0, 0>>, <<200, 0>>, <<200, 100>> }

\* the % of JavaScript: the remainder has the sign of the dividend
Remainder(a, n) == IF a >= 0 THEN a % n ELSE 0 - ((0 - a) % n)

\* for (let i = 0; i < 5; i++) particles.push(...)
ParticlesPerFrame == 5

\* alpha starts at 1, alpha *= 0.97 in every frame, removed when alpha < 0.01:
\* 0.97^151 > 0.01 > 0.97^152
Lifetime == 152

\* isActive = index === currentIndex % validBases.length, for every base
ActiveBases(bases, index) ==
  { i \in 0..(Len(bases) - 1) : i = Remainder(index, Len(bases)) }

\* if (isPlaying && currentIndex >= 0): the base of the particles, "" for none
ParticleBase ==
  IF isPlaying /\ currentIndex >= 0 /\ Len(sequence) > 0
  THEN LET base == Upper(sequence[Remainder(currentIndex, Len(sequence)) + 1])
       IN IF IsBase(base) THEN base ELSE ""
  ELSE ""

InitRenderer ==
  /\ sequence \in RenderSequences
  /\ isPlaying \in BOOLEAN
  /\ currentIndex \in -1..Len(sequence)
  /\ currentKey = "f-sharp"
  /\ playbackSpeed = 10
  /\ currentMutation = DefaultMutation
  /\ biofeedbackModulation = 0
  /\ loops = <<>>
  /\ sequenceRef = 0
  /\ transport = "stopped"
  /\ synthVolume = -60
  /\ drawEvents = <<>>
  /\ timers = <<>>
  /\ pendingPlays = <<>>
  /\ upload = NoUpload
  /\ toast = "none"
  /\ last = NoEvent
  /\ afterStop = FALSE
  /\ inputs = 0
  /\ call = NoCall
  /\ biofeedback = NoBiofeedback
  /\ adaptive = NoAdaptive
  /\ \E size \in Surfaces :
       renderer = [NoRenderer EXCEPT !.width = size[1], !.height = size[2]]
  /\ mounted = TRUE

RendererOnly ==
  UNCHANGED <<params, isPlaying, currentIndex, engine, drawEvents, timers,
              pendingPlays, upload, toast, last, afterStop, inputs, call,
              biofeedback, adaptive, mounted>>

\* the positions the scheduler can publish for the sequences rendered
RenderPositions == UNION { -1..Len(s) : s \in RenderSequences }

\* the values of selectedTab and the renderer each tab mounts
Tabs == {"visualizer", "quantum", "cymatic"}

CanvasTabs == {"visualizer", "quantum"}

\* the surface is resized: resizeCanvas, the listener of the window's resize
\* event, reads the new size; the Canvas of the 3D scene mounts its mesh once
\* the surface has a size
resizeCanvas(size) ==
  /\ renderer' = [renderer EXCEPT
                    !.width = size[1], !.height = size[2],
                    !.mesh = @ \/ (renderer.tab = "cymatic" /\ size[1] > 0 /\ size[2] > 0)]
  /\ RendererOnly

\* the cleanup of the effect without cancelAnimationFrame
cancelFrameKeepsRequest(r) == r

\* the cleanup of the effect of a canvas renderer:
\* if (animationRef.current) cancelAnimationFrame(animationRef.current)
cancelFrame(r) ==
  [r EXCEPT !.requests = IF r.named THEN @ - 1 ELSE @, !.named = FALSE]

\* animate of DNAVisualizer: fade, push particles, move and draw them, draw
\* the bases (none for an empty sequence), request the next frame and keep its
\* id in animationRef
animateVisualizer(r, particleBase, bases, index) ==
  LET spawned == IF particleBase # "" THEN ParticlesPerFrame ELSE 0
      pushed == r.particles \o [i \in 1..spawned |-> 0]
      moved == [i \in 1..Len(pushed) |-> pushed[i] + 1]
      alive(age) == age < Lifetime
  IN [r EXCEPT !.particles = SelectSeq(moved, alive),
               !.frames = @ + 1,
               !.frame = "visualizer",
               !.spawned = spawned,
               !.active = IF Len(bases) = 0 THEN {} ELSE ActiveBases(bases, index),
               !.drew = TRUE,
               !.pending = TRUE,
               !.requests = @ + 1,
               !.named = TRUE]

\* animate of QuantumOverlay: fade, then the mandala with phaseRef advanced
\* when playing with frequencies, else the idle dot; request the next frame
\* and keep its id in animationRef
animateOverlay(r, playing, frequencies) ==
  [r EXCEPT !.phase = IF playing /\ Len(frequencies) > 0 THEN @ + 1 ELSE @,
            !.frames = @ + 1,
            !.frame = "overlay",
            !.drew = TRUE,
            !.pending = TRUE,
            !.requests = @ + 1,
            !.named = TRUE]

\* the effect of the mounted canvas renderer runs: resizeCanvas(), the resize
\* listener, animate()
runEffect(r, tab, particleBase, bases, index, playing) ==
  CASE tab = "visualizer" -> animateVisualizer(r, particleBase, bases, index)
    [] tab = "quantum" -> animateOverlay(r, playing, bases)
    [] OTHER -> r

\* the renderer of the tab unmounts: the cleanup of its effect; its refs
\* (particlesRef, phaseRef, timeRef, meshRef) go with it
unmountRenderer(r) ==
  [(IF r.tab \in CanvasTabs THEN cancelFrame(r) ELSE r)
     EXCEPT !.particles = <<>>, !.phase = 0, !.time = 0, !.rotation = 0,
            !.mesh = FALSE, !.pending = FALSE]

\* the first commit (selectedTab is "visualizer") or onValueChange of the
\* Tabs: the renderer of the old tab unmounts, the renderer of the new tab
\* mounts and its effect runs
SelectTab(tab) ==
  /\ renderer.frames < MaxFrames
  /\ tab # renderer.tab
  /\ renderer.tab = "none" => tab = "visualizer"
  /\ LET fresh == [unmountRenderer(renderer) EXCEPT
                     !.tab = tab,
                     !.mesh = (tab = "cymatic" /\ renderer.width > 0
                               /\ renderer.height > 0)]
     IN renderer' = runEffect(fresh, tab, ParticleBase, validBases(sequence),
                              currentIndex, isPlaying)
  /\ RendererOnly

\* the scheduler publishes a position or changes the play flag: the parent
\* renders again and the effect of the mounted canvas renderer, which depends
\* on currentIndex, isPlaying and the frequencies, is torn down (cleanup) and
\* run again
PropsChange(index, playing) ==
  /\ renderer.frames < MaxFrames
  /\ renderer.tab # "none"
  /\ index <= Len(sequence)
  /\ <<index, playing>> # <<currentIndex, isPlaying>>
  /\ currentIndex' = index
  /\ isPlaying' = playing
  /\ UNCHANGED sequence
  /\ renderer' = runEffect(IF renderer.tab \in CanvasTabs
                           THEN cancelFrame(renderer) ELSE renderer,
                           renderer.tab, ParticleBase', validBases(sequence'),
                           currentIndex', isPlaying')
  /\ last' = Event("props")
  /\ UNCHANGED <<currentKey, playbackSpeed, currentMutation, biofeedbackModulation,
                 engine, drawEvents, timers, pendingPlays, upload, toast,
                 afterStop, inputs, call, biofeedback, adaptive, mounted>>

\* the requestAnimationFrame callback of DNAVisualizer runs: animate
VisualizerFrame ==
  /\ renderer.frames < MaxFrames
  /\ renderer.tab = "visualizer"
  /\ renderer.requests > 0
  /\ renderer' = animateVisualizer([renderer EXCEPT !.requests = @ - 1],
                                   ParticleBase, validBases(sequence), currentIndex)
  /\ RendererOnly

\* the requestAnimationFrame callback of QuantumOverlay runs: animate
OverlayFrame ==
  /\ renderer.frames < MaxFrames
  /\ renderer.tab = "quantum"
  /\ renderer.requests > 0
  /\ renderer' = animateOverlay([renderer EXCEPT !.requests = @ - 1],
                                isPlaying, validBases(sequence))
  /\ RendererOnly

\* useFrame of CymaticGeometry: if (!meshRef.current) return; timeRef
\* advanced, the uniforms set, the mesh rotated when playing; the frame loop
\* of the Canvas renders and goes on
CymaticFrame ==
  /\ renderer.frames < MaxFrames
  /\ renderer.tab = "cymatic"
  /\ renderer.mesh
  /\ renderer' = [renderer EXCEPT
                    !.time = @ + 1,
                    !.rotation = IF isPlaying THEN @ + 1 ELSE @,
                    !.frames = @ + 1,
                    !.frame = "cymatic",
                    !.drew = TRUE,
                    !.pending = TRUE]
  /\ RendererOnly

NextRenderer ==
  \/ \E size \in Surfaces : resizeCanvas(size)
  \/ \E tab \in Tabs : SelectTab(tab)
  \/ \E index \in RenderPositions, playing \in BOOLEAN : PropsChange(index, playing)
  \/ VisualizerFrame
  \/ OverlayFrame
  \/ CymaticFrame

SpecRenderer == InitRenderer /\ [][NextRenderer]_vars

------------------------------------------------------------------------------
(* The length of the sequence: every way the synthesizer's sequence is set *)

\* the first n characters of the pattern repeated
Repeat(pattern, n) == [i \in 1..n |-> pattern[((i - 1) % Len(pattern)) + 1]]

\* values of the seq parameter of the URL, one of them of 33 bases
LongUrlParams == { <<"a", "c">>, Repeat(<<"a", "c", "g">>, MaxLength + 1) }

\* what the input element lets the user type: maxLength={32}
LongTypedValues == { <<>>, Repeat(<<"g", "X", "t">>, MaxLength) }

\* contents of an uploaded file and of the pasted text, one of 40 characters
LongContents == { <<"X">>, Repeat(<<"t", "a", "x", "G">>, MaxLength + 8) }

\* organisms.sequence of OrganismCategories: 16 bases each
Organisms == { Repeat(<<"A", "T", "C", "G">>, 16), Repeat(<<"G", "C", "T", "A">>, 16) }

\* values of the sequence length slider: min={4} max={32}
SliderLengths == {4, MaxLength}

\* handleOrganismSelect of the current render: setSequence(seq);
\* if (isPlaying) stopSequence(); toast.success
SelectSequence(seq, op) ==
  /\ sequence' = seq
  /\ IF isPlaying
     THEN stopSequence
     ELSE UNCHANGED <<isPlaying, currentIndex, engine, afterStop>>
  /\ toast' = "success: loaded"
  /\ last' = [Event(op) EXCEPT !.stop = isPlaying, !.notified = TRUE]

\* handleOrganismSelect, the onSelect of OrganismCategories
handleOrganismSelect(seq) ==
  /\ inputs < MaxInputs
  /\ SelectSequence(seq, "organism")
  /\ inputs' = inputs + 1
  /\ UNCHANGED <<currentKey, playbackSpeed, currentMutation, biofeedbackModulation,
                 drawEvents, timers, pendingPlays, upload, call, others>>

\* generateRandomSequence of DNASynthesizer, the Randomize button: 16 random
\* bases; if (isPlaying) stopSequence(); setSequence; toast
RandomizeClick(randomSequence) ==
  /\ inputs < MaxInputs
  /\ SelectSequence(randomSequence, "randomize")
  /\ inputs' = inputs + 1
  /\ UNCHANGED <<currentKey, playbackSpeed, currentMutation, biofeedbackModulation,
                 drawEvents, timers, pendingPlays, upload, call, others>>

\* resetToDefaultSequence: if (isPlaying) stopSequence(); setSequence("ACGTACGT")
resetToDefaultSequence ==
  /\ inputs < MaxInputs
  /\ SelectSequence(DefaultSequence, "reset")
  /\ inputs' = inputs + 1
  /\ UNCHANGED <<currentKey, playbackSpeed, currentMutation, biofeedbackModulation,
                 drawEvents, timers, pendingPlays, upload, call, others>>

\* handleGenerate of AdaptiveCompositionMode: generateRandomSequence(sequenceLength)
\* in the mode of the panel (length random bases, or the evolved seed),
\* setGeneratedSequence, onSequenceGenerated
handleGenerate(replacement) ==
  /\ inputs < MaxInputs
  /\ adaptive.enabled
  /\ LET newSequence ==
           IF adaptive.mode = "evolutionary"
           THEN generateRandomSequence(adaptive.generatedSequence,
                                       adaptive.sequenceLength, replacement)
           ELSE Repeat(<<IF replacement = "" THEN "A" ELSE replacement, "C">>,
                       adaptive.sequenceLength)
     IN /\ adaptive' = [adaptive EXCEPT !.generatedSequence = newSequence]
        /\ SelectSequence(newSequence, "generate")
  /\ inputs' = inputs + 1
  /\ UNCHANGED <<currentKey, playbackSpeed, currentMutation, biofeedbackModulation,
                 drawEvents, timers, pendingPlays, upload, call, biofeedback,
                 renderer, mounted>>

\* applyUploadedData: the pasted text (cleaned by handleTextInput) without its
\* other characters, cut to 32, handed to onSequenceGenerated when not empty
applyUploadedData(text) ==
  /\ inputs < MaxInputs
  /\ adaptive.enabled
  /\ LET pasted == slice(Filtered(text), MaxLength)
     IN IF Len(pasted) > 0
        THEN /\ adaptive' = [adaptive EXCEPT !.generatedSequence = pasted]
             /\ SelectSequence(pasted, "paste")
        ELSE /\ last' = Event("paste")
             /\ UNCHANGED <<adaptive, sequence, isPlaying, currentIndex, engine,
                            afterStop, toast>>
  /\ inputs' = inputs + 1
  /\ UNCHANGED <<currentKey, playbackSpeed, currentMutation, biofeedbackModulation,
                 drawEvents, timers, pendingPlays, upload, call, biofeedback,
                 renderer, mounted>>

InitLength ==
  /\ sequence \in { initialSequence(u) : u \in LongUrlParams }
  /\ isPlaying = FALSE
  /\ currentIndex = -1
  /\ currentKey = "f-sharp"
  /\ playbackSpeed = 10
  /\ currentMutation = DefaultMutation
  /\ biofeedbackModulation = 0
  /\ loops = <<>>
  /\ sequenceRef = 0
  /\ transport = "stopped"
  /\ synthVolume = -60
  /\ drawEvents = <<>>
  /\ timers = <<>>
  /\ pendingPlays = <<>>
  /\ upload = NoUpload
  /\ toast = "none"
  /\ last = NoEvent
  /\ afterStop = FALSE
  /\ inputs = 0
  /\ call = NoCall
  /\ biofeedback = NoBiofeedback
  /\ \E mode \in Modes, length \in SliderLengths :
       adaptive = [NoAdaptive EXCEPT !.enabled = TRUE, !.mode = mode,
                                     !.sequenceLength = length]
  /\ renderer = NoRenderer
  /\ mounted = TRUE

NextLength ==
  \/ PlayClick
  \/ PlayResume
  \/ StopClick
  \/ \E value \in LongTypedValues : handleSequenceChange(value)
  \/ \E seq \in Organisms : handleOrganismSelect(seq)
  \/ \E randomSequence \in Organisms : RandomizeClick(randomSequence)
  \/ resetToDefaultSequence
  \/ \E replacement \in Replacements : handleGenerate(replacement)
  \/ \E text \in LongContents : applyUploadedData(text)
  \/ FileUpload
  \/ \E content \in LongContents : FileLoaded(content)

SpecLength == InitLength /\ [][NextLength]_vars

------------------------------------------------------------------------------
(* Teardown: the cleanup of the audio-graph effect of DNASynthesizer *)

\* the component unmounts: sequenceRef.current?.dispose(), the synth, the
\* recorder and the effects are disposed; the refs keep the disposed objects,
\* the transport is not stopped, timers and Tone.Draw callbacks are not cancelled
Unmount ==
  /\ mounted
  /\ mounted' = FALSE
  /\ loops' = IF sequenceRef # 0
              THEN [loops EXCEPT ![sequenceRef].state = "disposed"]
              ELSE loops
  /\ last' = Event("unmount")
  /\ UNCHANGED <<params, isPlaying, currentIndex, sequenceRef, transport,
                 synthVolume, drawEvents, timers, pendingPlays, upload, toast,
                 afterStop, inputs, call, biofeedback, adaptive, renderer>>

\* the callback of a Tone.Sequence built after the teardown, when the disposed
\* synth rejects the call: the callback ends before Tone.Draw.schedule
TickDisposed ==
  /\ ~mounted
  /\ transport = "started"
  /\ sequenceRef # 0
  /\ loops[sequenceRef].state = "started"
  /\ LET l == loops[sequenceRef]
     IN /\ last' = [Event("tick-failed") EXCEPT !.loop = sequenceRef, !.at = l.pos,
                                                !.k = l.k]
        /\ loops' = [loops EXCEPT ![sequenceRef].pos = (l.pos + 1) % Len(l.bases),
                                  ![sequenceRef].k = (l.k + 1) % Len(l.bases)]
  /\ afterStop' = FALSE
  /\ UNCHANGED <<params, isPlaying, currentIndex, sequenceRef, transport,
                 synthVolume, drawEvents, timers, pendingPlays, upload, toast,
                 inputs, call, others>>

\* the handlers of the user interface run while the component is mounted;
\* timers, suspended plays, ticks and Tone.Draw callbacks outlive it
NextTeardown ==
  \/ PlayClick
  \/ StopClick
  \/ \E mutation \in Mutations : handleMutation(mutation)
  \/ PlayResume
  \/ Tick
  \/ TickDisposed
  \/ DrawFire
  \/ DrawExpire
  \/ TimerFire
  \/ Unmount

SpecTeardown == Init /\ [][NextTeardown]_vars

------------------------------------------------------------------------------
(* Claims *)

C1_ParameterChange ==
  \/ currentKey' # currentKey
  \/ currentMutation' # currentMutation
  \/ playbackSpeed' # playbackSpeed

\* C1: every change of key, mutation state or playback speed made while
\* Playing stops the scheduler and schedules the delayed restart, on every
\* path that changes such a parameter.
C1_ChangeWhilePlayingRestarts ==
  [][ (isPlaying /\ C1_ParameterChange)
      => (~isPlaying' /\ currentIndex' = -1 /\ Len(timers') = Len(timers) + 1) ]_vars

\* C2: every tick of a loop built by the restart after a parameter change
\* computes its frequency, its chord and its interval from the key, mutation
\* and speed that the change established.
C2_RestartUsesNewValues ==
  (last.op = "tick" /\ loops[last.loop].origin = "restart") =>
    LET l == loops[last.loop]
        f == TickFrequency(DNA_FREQUENCIES(l.want.key), last.base, l.want.mutation)
    IN /\ last.chord = TickChord(f, l.want.mutation)
       /\ last.velocity = TickVelocity(l.want.mutation)
       /\ l.interval = NotationDuration(Subdivision(l.want.mutation, l.want.speed))

\* C3: from a stop() until the first tick of the next play() the published
\* position is -1, whatever draw callbacks of earlier ticks were pending.
C3_NoPositionAfterStop == afterStop => currentIndex = -1

\* C4: the tick interval of every trigger loop is baseNoteDuration /
\* (tempoVariation * speed), baseNoteDuration being the quarter note of
\* tempoVariation = 1 and speed = 1.
C4_IntervalFormula ==
  \A i \in 1..Len(loops) :
    loops[i].interval * loops[i].mutation.tempoVariation * loops[i].speed = 100 * 100

\* C5: a play() whose filtered sequence is empty emits the error notification,
\* builds no trigger loop, triggers no audio, and leaves the play flag, the
\* transport and the position as they were.
C5_EmptySequenceRejected ==
  [][ ( /\ pendingPlays # <<>>
        /\ pendingPlays' = Tail(pendingPlays)
        /\ Len(Filtered(Head(pendingPlays).closure.sequence)) = 0 )
      => ( /\ toast' = "error: enter a valid DNA sequence"
           /\ loops' = loops
           /\ sequenceRef' = sequenceRef
           /\ transport' = transport
           /\ isPlaying' = isPlaying
           /\ currentIndex' = currentIndex
           /\ last'.op # "tick" ) ]_vars

C5_Witness ==
  /\ last.op = "play-empty"
  /\ toast = "error: enter a valid DNA sequence"
  /\ ~isPlaying
  /\ currentIndex = -1
  /\ sequence = <<>>
  /\ loops = <<>>

\* C6: right after a stop() the play flag is false, the position is -1, the
\* transport is stopped and no trigger loop is started; a trigger loop is
\* started (can tick) only while it is the current one and the flag is true.
C6_StopCancels ==
  /\ last.stop => /\ ~isPlaying
                  /\ currentIndex = -1
                  /\ transport = "stopped"
                  /\ \A i \in 1..Len(loops) : loops[i].state # "started"
  /\ \A i \in 1..Len(loops) :
       loops[i].state = "started" =>
         (i = sequenceRef /\ isPlaying /\ transport = "started")

C6_Witness ==
  /\ last.op = "stop"
  /\ sequenceRef # 0
  /\ loops[sequenceRef].state = "stopped"
  /\ loops[sequenceRef].index > 0
  /\ currentIndex = -1
  /\ ~isPlaying

\* C7: a stop() called while the scheduler is Stopped changes nothing of the
\* play flag, the position, the trigger loops and the transport.
C7_StopWhenStoppedChangesNothing ==
  [][ (~isPlaying /\ last'.stop)
      => UNCHANGED <<isPlaying, currentIndex, loops, sequenceRef, transport,
                     synthVolume>> ]_vars

\* C8: the k-th tick of a loop over n symbols triggers the symbol at index
\* k mod n, and its position update publishes k mod n.
C8_TicksInSequenceOrder ==
  /\ last.op = "tick" => /\ last.at = last.k
                         /\ last.base = loops[last.loop].bases[last.k + 1]
  /\ last.op = "draw" => currentIndex = last.k

\* C9: the frequency of a tick is base[symbol] * key.multiplier + detune * 0.1
\* with the multipliers 1.0, 1.122 and 0.944 and 1.0 for an unknown key,
\* whatever the biofeedback level, position and speed.
C9_FrequencyFormula ==
  call.done =>
    call.result =
      (CASE call.base = "A" -> 3700 [] call.base = "T" -> 4662
         [] call.base = "C" -> 5544 [] call.base = "G" -> 6223)
      * (CASE call.key = "a" -> 1122 [] call.key = "c" -> 944 [] OTHER -> 1000)
      + call.mutation.frequencyDetune * 1000

C9_Witness ==
  /\ call.done
  /\ call.key \notin KeyValues
  /\ call.mutation.frequencyDetune # 0
  /\ biofeedbackModulation # 0
  /\ currentIndex # -1

\* C10: a tick triggers [f, 2f] with velocity 0.5 + 0.3 * harmonicBlend when
\* harmonicBlend > 0.3 and [f] alone otherwise, 0.3 included.
C10_ChordShape ==
  last.op = "tick" =>
    LET l == loops[last.loop]
        f == TickFrequency(DNA_FREQUENCIES(l.key), last.base, l.mutation)
    IN IF l.mutation.harmonicBlend > 3
       THEN /\ last.chord = <<f, 2 * f>>
            /\ last.velocity = 50 + 3 * l.mutation.harmonicBlend
       ELSE last.chord = <<f>>

C10_Witness ==
  /\ last.op = "tick"
  /\ loops[last.loop].mutation.harmonicBlend = 5
  /\ Len(last.chord) = 2

\* C11: the gain a tick applies is -10 + 10 * level dB for the biofeedback
\* level most recently written before the tick, not for the level that was
\* current when play() built the loop.
C11_TickGainFromLatestLevel ==
  last.op = "tick" => synthVolume = -100 + 10 * biofeedbackModulation

\* C12: when the microphone is refused, the feature switches itself off and
\* emits the error notification, the biofeedback level the scheduler sees is
\* 0 afterwards, and the play flag, the position, the trigger loops and the
\* transport stay as they were.
C12_DenialDisablesAndResets ==
  [][ last'.op = "mic-denied"
      => ( /\ ~biofeedback'.enabled
           /\ last'.notified
           /\ toast' = "error: could not access microphone"
           /\ biofeedbackModulation' = 0
           /\ UNCHANGED <<isPlaying, currentIndex, loops, sequenceRef,
                          transport>> ) ]_vars

\* C13: the published position is an integer from -1 to length - 1, length
\* being the number of valid symbols of the current sequence.
C13_PositionInRange ==
  currentIndex \in -1..(Len(validBases(sequence)) - 1)

C18_SameRun(a, b) ==
  a.bases = b.bases /\ a.key = b.key /\ a.mutation = b.mutation

\* the index of the first tick of a loop: pos and k advance together
C18_FirstAt(l) == (l.pos - l.k + Len(l.bases)) % Len(l.bases)

C18_FirstChord(l) ==
  TickChord(TickFrequency(DNA_FREQUENCIES(l.key), l.bases[C18_FirstAt(l) + 1],
                          l.mutation), l.mutation)

\* C14: a firing of the auto-evolve timer while Playing republishes the new
\* state as a parameter change under the stop/restart contract: the restart
\* is scheduled, so that playback resumes with the new state, and the timer
\* stays active while auto-evolve is enabled.
C14_AutoEvolveRestarts ==
  [][ (last'.op = "evolve" /\ isPlaying)
      => ( /\ Len(timers') = Len(timers) + 1
           /\ (adaptive'.enabled /\ adaptive'.autoEvolve) => IntervalActive' ) ]_vars

\* C15: a play() whose audio start fails emits a notification, leaves the play
\* flag, the position, the trigger loops and the transport as they were, and
\* schedules no further play() by itself.
C15_AudioFailureSurfaced ==
  [][ last'.op = "play-failed"
      => ( /\ last'.notified
           /\ UNCHANGED <<isPlaying, currentIndex, loops, sequenceRef, transport>>
           /\ timers' = timers
           /\ pendingPlays' = Tail(pendingPlays) ) ]_vars

\* C16: for every sequence of 1 to 32 valid symbols, a frame of the sequence
\* visualizer that reads position -1 marks no symbol active and spawns no
\* particle, and a frame that reads a position from 0 to length - 1 marks
\* exactly the symbol at that position.
C16_IdleFrameMarksNothing ==
  (renderer.frame = "visualizer" /\ Len(validBases(sequence)) \in 1..MaxLength) =>
    /\ currentIndex = -1 => (renderer.active = {} /\ renderer.spawned = 0)
    /\ currentIndex \in 0..(Len(validBases(sequence)) - 1) =>
         renderer.active = {currentIndex}

\* C17: a frame of a renderer whose drawing surface has zero width or height
\* skips its work: it leaves the particle list, the phase, the time and the
\* rotation as they were, and requests the next frame.
C17_ZeroSizeFrameSkipped ==
  [][ ( /\ renderer.width = 0 \/ renderer.height = 0
        /\ renderer'.frames = renderer.frames + 1 )
      => ( /\ renderer'.particles = renderer.particles
           /\ renderer'.phase = renderer.phase
           /\ renderer'.time = renderer.time
           /\ renderer'.rotation = renderer.rotation
           /\ renderer'.pending ) ]_vars

\* C18: a play() after a stop() with the sequence, key and mutation of the
\* run before starts like that run: its first tick is at index 0 with the
\* frequencies of the first tick of the run before, and the first position
\* published after it (the one that replaces -1) is 0.
C18_ReplayStartsAlike ==
  [][ /\ ( /\ last'.op = "play-start"
           /\ transport = "stopped"
           /\ sequenceRef # 0
           /\ C18_SameRun(loops[sequenceRef], loops'[sequenceRef']) )
         => /\ loops'[sequenceRef'].pos = 0
            /\ C18_FirstChord(loops'[sequenceRef']) = C18_FirstChord(loops[sequenceRef])
      /\ ( /\ last'.op = "draw"
           /\ isPlaying
           /\ currentIndex = -1
           /\ sequenceRef > 1
           /\ C18_SameRun(loops[sequenceRef - 1], loops[sequenceRef]) )
         => currentIndex' = 0 ]_vars

C20_Valid == {"A", "T", "C", "G", "a", "t", "c", "g"}

C20_ValidPositions(s) == { i \in 1..Len(s) : s[i] \in C20_Valid }

\* the position in s of its n-th valid symbol
C20_Nth(s, n) ==
  CHOOSE i \in C20_ValidPositions(s) :
    Cardinality({ j \in C20_ValidPositions(s) : j < i }) = n - 1

C20_UpperCase(c) ==
  CASE c \in {"A", "a"} -> "A" [] c \in {"T", "t"} -> "T"
    [] c \in {"C", "c"} -> "C" [] c \in {"G", "g"} -> "G"

C19_IdleBeforePlay == loops = <<>> => currentIndex = -1

C19_Witness ==
  /\ loops = <<>>
  /\ pendingPlays = <<>>
  /\ inputs = MaxInputs
  /\ last.op = "loaded"
  /\ currentKey # "f-sharp"
  /\ sequence = <<"T">>
  /\ currentIndex = -1

\* C21: in every reachable state the sequence of the synthesizer, and the
\* symbols of every trigger loop built from it, are at most 32, whichever way
\* the sequence was set (URL, typing, organism, generation, upload, paste).
C21_SequenceCapped ==
  /\ Len(sequence) <= 32
  /\ \A i \in 1..Len(loops) : Len(loops[i].bases) <= 32

C22_Frozen(a, b) ==
  /\ a.bases = b.bases
  /\ a.key = b.key
  /\ a.mutation = b.mutation
  /\ a.speed = b.speed
  /\ a.interval = b.interval

\* C22: a live trigger loop is never mutated in place: it is built from the
\* sequence, key, mutation and speed of the play() that builds it, no step
\* changes these values of a loop that exists, and every tick computes its
\* symbol and its frequencies from them, whatever parameter updates arrive in
\* between.
C22_LoopKeepsBuildValues ==
  [][ /\ last'.op = "play-start" =>
           LET l == loops'[sequenceRef']
               p == Head(pendingPlays).closure
           IN /\ l.bases = validBases(p.sequence)
              /\ l.key = p.key
              /\ l.mutation = p.mutation
              /\ l.interval = NotationDuration(Subdivision(p.mutation, p.speed))
      /\ \A i \in 1..Len(loops) : C22_Frozen(loops[i], loops'[i])
      /\ last'.op = "tick" =>
           LET l == loops[last'.loop]
           IN /\ last'.base = l.bases[last'.at + 1]
              /\ last'.chord =
                   TickChord(TickFrequency(DNA_FREQUENCIES(l.key), last'.base, l.mutation),
                             l.mutation)
              /\ last'.velocity = TickVelocity(l.mutation) ]_vars

\* a tick of a live loop after the key and the sequence have changed under it
C22_Witness ==
  /\ last.op = "tick"
  /\ isPlaying
  /\ loops[last.loop].state = "started"
  /\ loops[last.loop].key # currentKey
  /\ loops[last.loop].bases # validBases(sequence)

\* C23: every tick schedules exactly one position update, its own, and a
\* position p >= 0 that a position update publishes is the index of the symbol
\* whose audio trigger the same tick issued, however late the update runs.
C23_PositionPairedWithTrigger ==
  [][ /\ last'.op = "tick" =>
           /\ Len(drawEvents') = Len(drawEvents) + 1
           /\ drawEvents'[Len(drawEvents')].loop = last'.loop
           /\ drawEvents'[Len(drawEvents')].at = last'.at
      /\ (last'.op = "draw" /\ currentIndex' >= 0) => currentIndex' = last'.at ]_vars

\* C24: a change of the sequence (to one with valid symbols) while Playing
\* rebuilds the trigger loop for the new sequence: the loop over the old
\* sequence is stopped, so that no tick triggers a symbol of the old sequence
\* any more, and the play() that builds the loop over the new sequence is
\* scheduled.
C24_SequenceChangeRebuilds ==
  [][ (isPlaying /\ sequence' # sequence /\ Len(validBases(sequence')) > 0)
      => ( /\ \A i \in 1..Len(loops') : loops'[i].state # "started"
           /\ Len(timers') + Len(pendingPlays') = Len(timers) + Len(pendingPlays) + 1 ) ]_vars

\* C25: the play flag is true exactly when the current trigger loop is started
\* (and the transport runs): no tick fires while the flag is false, and while
\* the flag is true the next tick can fire.
C25_FlagAgreesWithLoop ==
  /\ isPlaying <=> (sequenceRef # 0 /\ loops[sequenceRef].state = "started")
  /\ isPlaying <=> (transport = "started")
  /\ \A i \in 1..Len(loops) : loops[i].state = "started" => i = sequenceRef
  /\ last.op = "tick" => isPlaying
  /\ (isPlaying /\ Len(drawEvents) < MaxDraw) => ENABLED Tick

\* Playing again on the loop that a delayed restart built
C25_Witness ==
  /\ isPlaying
  /\ last.op = "tick"
  /\ sequenceRef = 2
  /\ loops[2].origin = "restart"
  /\ loops[1].state = "disposed"

\* C26: at most one trigger loop is active at any time: a play() disposes the
\* loop built before it, so at most one loop is started, only the current
\* loop triggers audio, and only the current loop publishes positions.
C26_SingleActiveLoop ==
  /\ Cardinality({ i \in 1..Len(loops) : loops[i].state = "started" }) <= 1
  /\ \A i \in 1..Len(loops) : i # sequenceRef => loops[i].state = "disposed"
  /\ last.op \in {"tick", "draw"} => last.loop = sequenceRef

\* C27: a step taken while biofeedback is switched off writes no biofeedback
\* level; unless the step switches it on, it leaves the microphone stream
\* released and schedules no sampling frame, also when the permission asked
\* for before the switch-off is granted after it.
C27_NothingAfterSwitchOff ==
  [][ ~biofeedback.enabled
      => ( /\ biofeedbackModulation' = biofeedbackModulation
           /\ biofeedback'.enabled \/ ( /\ ~biofeedback'.stream
                                        /\ biofeedback'.frames <= biofeedback.frames ) ) ]_vars

\* C29: every biofeedback level written is within [0, 1], and when the user
\* switches biofeedback off the level that the scheduler and the 3D renderer
\* read is 0 again, whatever levels the session wrote.
C29_LevelZeroWhenOff ==
  [][ /\ biofeedbackModulation' \in 0..10
      /\ (last'.op = "biofeedback-toggle" /\ ~biofeedback'.enabled)
           => biofeedbackModulation' = 0 ]_vars

\* C28: after the teardown no trigger loop is created or started and no tick
\* and no position update runs any more, whatever restart timer or suspended
\* play() was pending at the teardown.
C28_NothingAfterTeardown ==
  [][ ~mounted
      => ( /\ Len(loops') = Len(loops)
           /\ \A i \in 1..Len(loops') : loops'[i].state # "started"
           /\ last'.op \notin {"tick", "tick-failed", "draw"} ) ]_vars

\* C30: the frame loop of a renderer sustains itself without the scheduler:
\* while a canvas renderer is mounted exactly one frame request is outstanding
\* and animationRef names it, after every frame on every path (playing, idle,
\* empty sequence) and after the effect was torn down and run again for new
\* inputs; no request is left once the renderer is unmounted; and the next
\* frame can run whether the play flag is set or not.
C30_FrameLoopSelfSustaining ==
  /\ renderer.requests <= 1
  /\ renderer.tab \in CanvasTabs => (renderer.requests = 1 /\ renderer.named)
  /\ renderer.tab \notin CanvasTabs => renderer.requests = 0
  /\ (renderer.tab = "visualizer" /\ renderer.frames < MaxFrames) =>
       ENABLED VisualizerFrame
  /\ (renderer.tab = "quantum" /\ renderer.frames < MaxFrames) =>
       ENABLED OverlayFrame

C30_Witness ==
  /\ last.op = "props"
  /\ renderer.tab = "quantum"
  /\ renderer.frame = "overlay"
  /\ renderer.frames > 1
  /\ renderer.phase > 0
  /\ ~isPlaying
  /\ renderer.requests = 1

====
